---- MODULE Spec2Model ----
(***************************************************************************)
(* check.py: every rust example fenced in a markdown file must also be     *)
(* present, as doc-comment lines, in some rust file.                       *)
(* parse-test/test.py with parse-test/rust_lexer.py: the test harness of   *)
(* the parser, which imports tests from the string literals of a rust file *)
(* and runs the tests of a tests file.                                     *)
(*                                                                         *)
(* Texts are sequences of one-character strings.  A path is a natural      *)
(* number; the order of the numbers stands for the string order of the     *)
(* path names, which is the order rust_examples.sort() compares first.     *)
(***************************************************************************)
EXTENDS Integers, Sequences, FiniteSets, TLC

\* Number of markdown files and of rust files os.walk finds.
NumMd == 2
NumRust == 2

MdPaths == 1..NumMd
RustPaths == 1..NumRust

NL == "\n"
\* The characters str.strip() removes, among those of the model's alphabet.
Whitespace == {" ", NL, "\t", "\r"}

\* The backtick character (a string literal of the module cannot hold it).
BT == "BT"
Fence == <<BT, BT, BT>>
FenceRust == Fence \o <<"r", "u", "s", "t">>

----------------------------------------------------------------------------
(* Pure helpers: str.strip, str.split("\n"), "\n".join                     *)

RECURSIVE LStrip(_)
LStrip(s) ==
    IF s # <<>> /\ Head(s) \in Whitespace THEN LStrip(Tail(s)) ELSE s

RECURSIVE RStrip(_)
RStrip(s) ==
    IF s # <<>> /\ s[Len(s)] \in Whitespace
    THEN RStrip(SubSeq(s, 1, Len(s) - 1))
    ELSE s

strip(s) == RStrip(LStrip(s))

\* s.split("\n"): always at least one line.
RECURSIVE split(_)
split(s) ==
    IF \E i \in 1..Len(s) : s[i] = NL
    THEN LET i == CHOOSE k \in 1..Len(s) :
                      s[k] = NL /\ \A j \in 1..(k - 1) : s[j] # NL
         IN  <<SubSeq(s, 1, i - 1)>> \o split(SubSeq(s, i + 1, Len(s)))
    ELSE <<s>>

\* "\n".join(lines)
RECURSIVE join(_)
join(lines) ==
    IF lines = <<>> THEN <<>>
    ELSE IF Len(lines) = 1 THEN lines[1]
    ELSE lines[1] \o <<NL>> \o join(Tail(lines))

\* text[p .. p+Len(lit)-1] = lit
At(text, p, lit) ==
    /\ p >= 1
    /\ p + Len(lit) - 1 <= Len(text)
    /\ SubSeq(text, p, p + Len(lit) - 1) = lit

----------------------------------------------------------------------------
(* find_rust_examples: the opener, a captured group of units, the closer.  *)
(* A unit of the group is at most two backticks followed by one character  *)
(* that is no backtick, so the group ends at the first run of three        *)
(* backticks after the opener, and there is no match from an opener that   *)
(* no such run follows.                                                    *)

\* Position of the first closing fence at or after p, 0 when there is none.
FirstFence(text, p) ==
    IF \E q \in p..Len(text) : At(text, q, Fence)
    THEN CHOOSE q \in p..Len(text) :
             At(text, q, Fence) /\ \A r \in p..(q - 1) : ~At(text, r, Fence)
    ELSE 0

\* An opener at q that a closing fence follows.
MdMatchAt(text, q) ==
    At(text, q, FenceRust) /\ FirstFence(text, q + Len(FenceRust)) # 0

\* Start of the leftmost match at or after pos, 0 when there is none.
MdSearch(text, pos) ==
    IF \E q \in pos..Len(text) : MdMatchAt(text, q)
    THEN CHOOSE q \in pos..Len(text) :
             MdMatchAt(text, q) /\ \A r \in pos..(q - 1) : ~MdMatchAt(text, r)
    ELSE 0

\* m.group(1) of the match that starts at q.
MdGroup1(text, q) ==
    SubSeq(text, q + Len(FenceRust), FirstFence(text, q + Len(FenceRust)) - 1)

\* m.end() of the match that starts at q (as the next 1-based position).
MdEnd(text, q) == FirstFence(text, q + Len(FenceRust)) + Len(Fence)

----------------------------------------------------------------------------
(* rust_examples: the items of rust_examples_dict as (path, offset, text), *)
(* sorted.  No two items share (path, offset): an offset of a file is the  *)
(* start of one match, so the comparison never reaches the text.           *)

TupleLess(a, b) == a[1] < b[1] \/ (a[1] = b[1] /\ a[2] < b[2])

RECURSIVE SortTuples(_)
SortTuples(S) ==
    IF S = {} THEN <<>>
    ELSE LET m == CHOOSE x \in S : \A y \in S \ {x} : TupleLess(x, y)
         IN  <<m>> \o SortTuples(S \ {m})

DictItems(d) == {<<d[t][1], d[t][2], t>> : t \in DOMAIN d}

SortedExamples(d) == SortTuples(DictItems(d))

EmptyDict == [t \in {} |-> <<>>]

\* rust_examples_dict[text] = (p, off)
DictStore(d, text, loc) ==
    [t \in DOMAIN d \cup {text} |-> IF t = text THEN loc ELSE d[t]]

----------------------------------------------------------------------------
(* find_examples: one alternative, in its own group, per example; an       *)
(* alternative is the example's lines, each escaped (so matched literally) *)
(* behind "//", one of "!" and "/", and an optional space, and the lines   *)
(* are joined by a line break.  The compiled pattern is kept as the        *)
(* sequence of the alternatives' line lists.                               *)

\* Mutant: the alternatives are built from the list read backwards.
CompileExamplesReversed(examples) ==
    [i \in 1..Len(examples) |-> split(examples[Len(examples) + 1 - i][3])]

CompileExamples(examples) ==
    [i \in 1..Len(examples) |-> split(examples[i][3])]

\* Mutant: the character class holds the slash alone.
MarkerClassSlashOnly == {"/"}

\* The third character of a marker the pattern accepts.
MarkerClass == {"!", "/"}

\* With alternative `lines` matched up to its line k at position pos: the
\* position after the whole match, 0 when it fails.  The optional space is
\* greedy: taken first, given back when the rest then fails.
RECURSIVE MatchLine(_, _, _, _)
RECURSIVE MatchText(_, _, _, _)
MatchLine(src, pos, lines, k) ==
    IF ~(/\ pos + 2 <= Len(src)
         /\ src[pos] = "/"
         /\ src[pos + 1] = "/"
         /\ src[pos + 2] \in MarkerClass)
    THEN 0
    ELSE LET p == pos + 3
             spaced == IF p <= Len(src) /\ src[p] = " "
                       THEN MatchText(src, p + 1, lines, k)
                       ELSE 0
         IN  IF spaced # 0 THEN spaced ELSE MatchText(src, p, lines, k)

MatchText(src, p, lines, k) ==
    LET e == p + Len(lines[k])
    IN  IF ~At(src, p, lines[k]) THEN 0
        ELSE IF k = Len(lines) THEN e
        ELSE IF e <= Len(src) /\ src[e] = NL
             THEN MatchLine(src, e + 1, lines, k + 1)
             ELSE 0

\* The first alternative that matches at q, 0 when none does.
GroupAt(pat, src, q) ==
    IF \E g \in 1..Len(pat) : MatchLine(src, q, pat[g], 1) # 0
    THEN CHOOSE g \in 1..Len(pat) :
             /\ MatchLine(src, q, pat[g], 1) # 0
             /\ \A h \in 1..(g - 1) : MatchLine(src, q, pat[h], 1) = 0
    ELSE 0

NoMatch == [start |-> 0, end |-> 0, group |-> 0]

\* The next match finditer yields when its scan stands at pos.  A pattern of
\* no alternative is the empty pattern: it matches the empty string at every
\* position, the end of the text included, and no group takes part.
Search(pat, src, pos) ==
    IF pat = <<>>
    THEN IF pos <= Len(src) + 1
         THEN [start |-> pos, end |-> pos, group |-> 0]
         ELSE NoMatch
    ELSE IF \E q \in pos..Len(src) : GroupAt(pat, src, q) # 0
         THEN LET q == CHOOSE r \in pos..Len(src) :
                           /\ GroupAt(pat, src, r) # 0
                           /\ \A t \in pos..(r - 1) : GroupAt(pat, src, t) = 0
                  g == GroupAt(pat, src, q)
              IN  [start |-> q, end |-> MatchLine(src, q, pat[g], 1), group |-> g]
         ELSE NoMatch

\* Where the scan stands after match m: behind it, and one further on when
\* the match was empty.
NextPos(m) == IF m.end = m.start THEN m.end + 1 ELSE m.end

\* The next match at or after pos in which a group took part.  The loop body
\* assigns nothing for a match without one, so the scan passes over it.
RECURSIVE SearchGroup(_, _, _)
SearchGroup(pat, src, pos) ==
    LET m == Search(pat, src, pos)
    IN  IF m = NoMatch \/ m.group # 0 THEN m
        ELSE SearchGroup(pat, src, NextPos(m))

\* Mutant: the flags are rebuilt from the last match alone.
SetFoundOnly(f, g) == [i \in DOMAIN f |-> i = g]

\* found[g] = True
SetFound(f, g) == [f EXCEPT ![g] = TRUE]

\* The groups whose flag one whole pass of visit_rust over src sets, the scan
\* standing at pos.
RECURSIVE GroupsFrom(_, _, _)
GroupsFrom(pat, src, pos) ==
    LET m == SearchGroup(pat, src, pos)
    IN  IF m = NoMatch THEN {}
        ELSE {m.group} \cup GroupsFrom(pat, src, NextPos(m))

----------------------------------------------------------------------------
(* The files of the tree.  A file is [ok, text]: ok is FALSE for a file     *)
(* whose open() or read() raises.                                          *)

File(text) == [ok |-> TRUE, text |-> text]
Unreadable == [ok |-> FALSE, text |-> <<>>]

Block(raw) == FenceRust \o raw \o Fence

\* A markdown file that holds an example and cannot be read (its bytes are
\* no UTF-8, or open() is refused): the text is what the file holds, and no
\* task ever gets it.
UnreadableDoc ==
    [ok |-> FALSE, text |-> Block(<<NL, "c", NL>>)]

\* Example texts of the markdown files.
ExA == <<"a">>
ExAB == <<"a", NL, "b">>
ExB == <<"b">>

MdCorpus ==
    { \* an opener that nothing closes: no example
      File(<<"x", NL>> \o FenceRust \o <<NL>> \o ExA),
      \* the example "a", prose, the example "b"
      File(Block(<<NL>> \o ExA \o <<NL>>) \o <<NL, "x", NL>>
               \o Block(<<NL>> \o ExB \o <<NL>>)),
      \* the example "a\nb", then the example "a" again
      File(Block(<<NL>> \o ExAB \o <<NL>>) \o <<NL>>
               \o Block(<<" ">> \o ExA \o <<NL>>)),
      UnreadableDoc }

\* A comment line: marker, sp spaces, text.
RECURSIVE Spaces(_)
Spaces(n) == IF n = 0 THEN <<>> ELSE <<" ">> \o Spaces(n - 1)
Cmt(marker, sp, text) == marker \o Spaces(sp) \o text

OuterDoc == <<"/", "/", "/">>
InnerDoc == <<"/", "/", "!">>
PlainComment == <<"/", "/">>

RustCorpus ==
    { \* "a\nb" behind the outer doc marker and one space
      File(Cmt(OuterDoc, 1, ExA) \o <<NL>> \o Cmt(OuterDoc, 1, ExB)),
      \* "a\nb" behind the inner doc marker, the second line without a space
      File(Cmt(InnerDoc, 1, ExA) \o <<NL>> \o Cmt(InnerDoc, 0, ExB)),
      \* a longer line that begins like "a", "b" after code, and "a" behind
      \* the plain comment marker
      File(Cmt(OuterDoc, 0, ExA \o ExB) \o <<NL, "x", " ">>
               \o Cmt(InnerDoc, 1, ExB) \o <<NL>> \o Cmt(PlainComment, 1, ExA)),
      Unreadable }

----------------------------------------------------------------------------
VARIABLES
    md,                  \* md[p]: the markdown file of path p
    rs,                  \* rs[p]: the rust file of path p
    pc,                  \* where the main thread stands
    md_task,             \* md_task[p]: the visit_md(p) task, [st, pos]
    rust_examples_dict,  \* text -> (path, offset)
    rust_examples,       \* sorted (path, offset, text)
    find_examples,       \* the compiled pattern
    found,               \* found[g]
    rust_task,           \* rust_task[p]: the visit_rust(p) task, [st, pos]
    seen,                \* history: (p, g) for each match of group g task p saw
    idx,                 \* the report loop's position in zip(rust_examples, found)
    bad,
    output,              \* what was printed, in order
    exit_status,         \* the status the process ended with, once pc = "done"
    run,                 \* 1, and 2 in the second run of the same tree
    first                \* the first run's (output, exit_status), <<>> before

\* parse-test/test.py, for the runs of the test harness.
VARIABLES
    command,             \* args.command: "import" or "test" ("check": no harness run)
    args,                \* [update_output, interactive, filter]
    disk,                \* the tests file: the list of its records, or NoFile
    disk0,               \* history: the tests file at the start
    written,             \* history: write_tests was called
    source,              \* the rust file import_tests reads
    tests,               \* the dict of read_tests, in insertion order
    hpc,                 \* where the harness stands
    lx_pos,              \* where finditer stands in lex
    tokens,              \* tokens of lex
    scanned,             \* history: (kind, val) of every match lex went through
    cur,                 \* the position of the running for loop
    result,              \* the result of the last run_parser
    failure_count,
    stdout               \* what the harness printed, in order

cvars == <<md, rs, pc, md_task, rust_examples_dict, rust_examples, find_examples,
           found, rust_task, seen, idx, bad, output, exit_status, run, first>>

hvars == <<command, args, disk, disk0, written, source, tests, hpc, lx_pos,
           tokens, scanned, cur, result, failure_count, stdout>>

vars == <<cvars, hvars>>

\* No harness run: the run is one of check.py.
HarnessOff ==
    /\ command = "check"
    /\ args = <<>>
    /\ disk = <<>>
    /\ disk0 = <<>>
    /\ written = FALSE
    /\ source = <<>>
    /\ tests = <<>>
    /\ hpc = "off"
    /\ lx_pos = 1
    /\ tokens = <<>>
    /\ scanned = <<>>
    /\ cur = 1
    /\ result = <<>>
    /\ failure_count = 0
    /\ stdout = <<>>

\* The state every run starts from: module-level initialisation up to the
\* first ThreadPoolExecutor, all tasks submitted and none started.
Fresh ==
    /\ pc = "md_scan"
    /\ md_task = [p \in MdPaths |-> [st |-> "queued", pos |-> 1]]
    /\ rust_examples_dict = EmptyDict
    /\ rust_examples = <<>>
    /\ find_examples = <<>>
    /\ found = <<>>
    /\ rust_task = [p \in RustPaths |-> [st |-> "queued", pos |-> 1]]
    /\ seen = {}
    /\ idx = 1
    /\ bad = 0
    /\ output = <<>>
    /\ exit_status = 0

Init ==
    /\ md \in [MdPaths -> MdCorpus]
    /\ rs \in [RustPaths -> RustCorpus]
    /\ run = 1
    /\ first = <<>>
    /\ Fresh
    /\ HarnessOff

----------------------------------------------------------------------------
(* The documentation scan: one visit_md task per markdown file, all on     *)
(* worker threads (the pool has at least five, more than the model has     *)
(* files).  An exception of a task ends the task and is kept in its        *)
(* Future, which nothing reads.                                            *)

\* open(p) or f.read() raises.
MdOpenFail(p) ==
    /\ pc = "md_scan"
    /\ md_task[p].st = "queued"
    /\ ~md[p].ok
    /\ md_task' = [md_task EXCEPT ![p].st = "failed"]
    /\ UNCHANGED hvars
    /\ UNCHANGED <<md, rs, pc, rust_examples_dict, rust_examples, find_examples,
                   found, rust_task, seen, idx, bad, output, exit_status, run,
                   first>>

\* One turn of the loop of visit_md(p), finditer standing at pos: the next
\* match is stored under its stripped text; the task returns when no match
\* is left.
MdTurn(p, pos) ==
    LET text == md[p].text
        q == MdSearch(text, pos)
        next == MdEnd(text, q)
    IN  IF q = 0
        THEN /\ md_task' = [md_task EXCEPT ![p].st = "done"]
             /\ UNCHANGED rust_examples_dict
        ELSE /\ rust_examples_dict' =
                    DictStore(rust_examples_dict, strip(MdGroup1(text, q)),
                              <<p, q - 1>>)
             /\ md_task' = [md_task EXCEPT
                              ![p] = [st |-> IF MdSearch(text, next) = 0
                                             THEN "done" ELSE "running",
                                      pos |-> next]]

\* The task starts: the file is read and the loop takes its first turn.
MdRead(p) ==
    /\ pc = "md_scan"
    /\ md_task[p].st = "queued"
    /\ md[p].ok
    /\ MdTurn(p, 1)
    /\ UNCHANGED hvars
    /\ UNCHANGED <<md, rs, pc, rust_examples, find_examples, found, rust_task,
                   seen, idx, bad, output, exit_status, run, first>>

\* A later turn of the loop.
MdInsert(p) ==
    /\ pc = "md_scan"
    /\ md_task[p].st = "running"
    /\ MdTurn(p, md_task[p].pos)
    /\ UNCHANGED hvars
    /\ UNCHANGED <<md, rs, pc, rust_examples, find_examples, found, rust_task,
                   seen, idx, bad, output, exit_status, run, first>>

\* Mutant: the pool is left as soon as one of its tasks has ended.
FinishedAny(task) == \E p \in DOMAIN task : task[p].st \in {"done", "failed"}

Finished(task) == \A p \in DOMAIN task : task[p].st \in {"done", "failed"}

\* The first pool is left when all its tasks have ended; then the examples
\* are listed and sorted, the pattern is compiled and found is created.
Compile ==
    /\ pc = "md_scan"
    /\ Finished(md_task)
    /\ rust_examples' = SortedExamples(rust_examples_dict)
    /\ find_examples' = CompileExamples(rust_examples')
    /\ found' = [g \in 1..Len(rust_examples') |-> FALSE]
    /\ pc' = "rust_scan"
    /\ UNCHANGED hvars
    /\ UNCHANGED <<md, rs, md_task, rust_examples_dict, rust_task, seen, idx,
                   bad, output, exit_status, run, first>>

----------------------------------------------------------------------------
(* The source scan: one visit_rust task per rust file.                     *)

RustOpenFail(p) ==
    /\ pc = "rust_scan"
    /\ rust_task[p].st = "queued"
    /\ ~rs[p].ok
    /\ rust_task' = [rust_task EXCEPT ![p].st = "failed"]
    /\ UNCHANGED hvars
    /\ UNCHANGED <<md, rs, pc, md_task, rust_examples_dict, rust_examples,
                   find_examples, found, seen, idx, bad, output, exit_status,
                   run, first>>

\* One turn of the outer loop of visit_rust(p) that assigns, finditer
\* standing at pos: every group that took part in the match (exactly one,
\* the groups being the alternatives) sets its flag; the task returns when
\* no such match is left.
RustTurn(p, pos) ==
    LET text == rs[p].text
        m == SearchGroup(find_examples, text, pos)
        next == NextPos(m)
    IN  IF m = NoMatch
        THEN /\ rust_task' = [rust_task EXCEPT ![p].st = "done"]
             /\ UNCHANGED <<found, seen>>
        ELSE /\ found' = SetFound(found, m.group)
             /\ seen' = seen \cup {<<p, m.group>>}
             /\ rust_task' = [rust_task EXCEPT
                                ![p] = [st |-> IF SearchGroup(find_examples, text,
                                                             next) = NoMatch
                                               THEN "done" ELSE "running",
                                        pos |-> next]]

\* The task starts: the file is read and the loop takes its first turn.
RustRead(p) ==
    /\ pc = "rust_scan"
    /\ rust_task[p].st = "queued"
    /\ rs[p].ok
    /\ RustTurn(p, 1)
    /\ UNCHANGED hvars
    /\ UNCHANGED <<md, rs, pc, md_task, rust_examples_dict, rust_examples,
                   find_examples, idx, bad, output, exit_status, run, first>>

\* A later turn of the loop.
RustMatch(p) ==
    /\ pc = "rust_scan"
    /\ rust_task[p].st = "running"
    /\ RustTurn(p, rust_task[p].pos)
    /\ UNCHANGED hvars
    /\ UNCHANGED <<md, rs, pc, md_task, rust_examples_dict, rust_examples,
                   find_examples, idx, bad, output, exit_status, run, first>>

\* The second pool is left when all its tasks have ended.
Join ==
    /\ pc = "rust_scan"
    /\ Finished(rust_task)
    /\ pc' = "report"
    /\ bad' = 0
    /\ UNCHANGED hvars
    /\ UNCHANGED <<md, rs, md_task, rust_examples_dict, rust_examples,
                   find_examples, found, rust_task, seen, idx, output,
                   exit_status, run, first>>

----------------------------------------------------------------------------
(* The report.                                                             *)

\* Each line of the example behind two spaces.
IndentLines(text) ==
    LET lines == split(text)
    IN  join([i \in 1..Len(lines) |-> <<" ", " ">> \o lines[i]])

\* print("Rust example from {file} not found:\n{indented lines}\n\n")
ExampleBlock(file, text) ==
    [kind |-> "example", file |-> file, body |-> IndentLines(text), count |-> 0]

\* print("{bad} missing markdown examples")
SummaryLine(n) ==
    [kind |-> "summary", file |-> 0, body |-> <<>>, count |-> n]

\* Mutant: sys.exit(1) is never reached.
ExitStatusNever(b) == 0

\* Mutant: sys.exit(1) stands outside the test of bad.
ExitStatusAlways(b) == 1

\* The status the process ends with.
ExitStatus(b) == IF b # 0 THEN 1 ELSE 0

\* Mutant: the loop is left behind the first missing example.
LoopDoneAtFirstMissing(i, examples, flags) ==
    \/ i > Len(examples)
    \/ i > Len(flags)
    \/ \E k \in 1..(i - 1) : ~flags[k]

\* zip(rust_examples, found) is exhausted at position i.
LoopDone(i, examples, flags) == i > Len(examples) \/ i > Len(flags)

\* One turn of the loop over zip(rust_examples, found).
Report ==
    /\ pc = "report"
    /\ ~LoopDone(idx, rust_examples, found)
    /\ IF found[idx]
       THEN UNCHANGED <<output, bad>>
       ELSE /\ output' = Append(output,
                                ExampleBlock(rust_examples[idx][1],
                                             rust_examples[idx][3]))
            /\ bad' = bad + 1
    /\ idx' = idx + 1
    /\ UNCHANGED hvars
    /\ UNCHANGED <<md, rs, pc, md_task, rust_examples_dict, rust_examples,
                   find_examples, found, rust_task, seen, exit_status, run,
                   first>>

\* After the loop: the summary and sys.exit(1), or the end of the script.
Exit ==
    /\ pc = "report"
    /\ LoopDone(idx, rust_examples, found)
    /\ output' = IF bad # 0 THEN Append(output, SummaryLine(bad)) ELSE output
    /\ exit_status' = ExitStatus(bad)
    /\ pc' = "done"
    /\ UNCHANGED hvars
    /\ UNCHANGED <<md, rs, md_task, rust_examples_dict, rust_examples,
                   find_examples, found, rust_task, seen, idx, bad, run, first>>

Next ==
    \/ \E p \in MdPaths : MdOpenFail(p)
    \/ \E p \in MdPaths : MdRead(p)
    \/ \E p \in MdPaths : MdInsert(p)
    \/ Compile
    \/ \E p \in RustPaths : RustOpenFail(p)
    \/ \E p \in RustPaths : RustRead(p)
    \/ \E p \in RustPaths : RustMatch(p)
    \/ Join
    \/ Report
    \/ Exit

Spec == Init /\ [][Next]_vars

----------------------------------------------------------------------------
(* The verifier run a second time on the unchanged tree: every structure   *)
(* is built afresh, and the first run's output and status are kept to      *)
(* compare.                                                                *)

Rerun ==
    /\ pc = "done"
    /\ run = 1
    /\ run' = 2
    /\ first' = <<output, exit_status>>
    /\ pc' = "md_scan"
    /\ md_task' = [p \in MdPaths |-> [st |-> "queued", pos |-> 1]]
    /\ rust_examples_dict' = EmptyDict
    /\ rust_examples' = <<>>
    /\ find_examples' = <<>>
    /\ found' = <<>>
    /\ rust_task' = [p \in RustPaths |-> [st |-> "queued", pos |-> 1]]
    /\ seen' = {}
    /\ idx' = 1
    /\ bad' = 0
    /\ output' = <<>>
    /\ exit_status' = 0
    /\ UNCHANGED hvars
    /\ UNCHANGED <<md, rs>>

NextTwice == Next \/ Rerun

SpecTwice == Init /\ [][NextTwice]_vars

----------------------------------------------------------------------------
(* parse-test/rust_lexer.py: the master pattern is the alternation of the  *)
(* token kinds in the order of TOKEN_SPEC, so the token at a position is   *)
(* of the first kind that matches there.  For each kind, the position      *)
(* after its match at pos, 0 when the kind does not match at pos.          *)

QT == "\""
BS == "\\"
\* The character U+0008, which "\b" stands for in an escape.
Backspace == "BSP"

\* The least position from p on where lit stands, 0 when there is none.
FirstLit(text, p, lit) ==
    IF \E q \in p..Len(text) : At(text, q, lit)
    THEN CHOOSE q \in p..Len(text) :
             At(text, q, lit) /\ \A r \in p..(q - 1) : ~At(text, r, lit)
    ELSE 0

\* The least position from p on whose character is outside S, 0 when there
\* is none.
FirstNotIn(text, p, S) ==
    IF \E q \in p..Len(text) : text[q] \notin S
    THEN CHOOSE q \in p..Len(text) :
             text[q] \notin S /\ \A r \in p..(q - 1) : text[r] \in S
    ELSE 0

\* LINE_COMMENT: two slashes and the rest of the line.
LineCommentEnd(text, pos) ==
    IF ~At(text, pos, <<"/", "/">>) THEN 0
    ELSE LET nl == FirstLit(text, pos + 2, <<NL>>)
         IN  IF nl = 0 THEN Len(text) + 1 ELSE nl

\* BLOCK_COMMENT: up to the first closer; no match when nothing closes it.
BlockCommentEnd(text, pos) ==
    IF ~At(text, pos, <<"/", "*">>) THEN 0
    ELSE LET c == FirstLit(text, pos + 2, <<"*", "/">>)
         IN  IF c = 0 THEN 0 ELSE c + 2

LexSpace == {" ", "\t", "\r", NL}

\* WHITESPACE: the whole run.
WhitespaceEnd(text, pos) ==
    IF ~(pos <= Len(text) /\ text[pos] \in LexSpace) THEN 0
    ELSE LET e == FirstNotIn(text, pos, LexSpace)
         IN  IF e = 0 THEN Len(text) + 1 ELSE e

\* The position after the prefix br or r at pos, 0 when neither stands there.
RawPrefixEnd(text, pos) ==
    IF At(text, pos, <<"b", "r">>) THEN pos + 2
    ELSE IF At(text, pos, <<"r">>) THEN pos + 1
    ELSE 0

\* RAW_HASHED: the prefix, one hash or more, a quote, and lazily up to the
\* first quote that as many hashes follow.
RawHashedEnd(text, pos) ==
    LET h == RawPrefixEnd(text, pos)
        nh == FirstNotIn(text, h, {"#"})
        n == nh - h
        closer == <<QT>> \o [i \in 1..n |-> "#"]
        c == FirstLit(text, nh + 1, closer)
    IN  IF h = 0 \/ nh = 0 \/ n = 0 \/ text[nh] # QT \/ c = 0 THEN 0
        ELSE c + 1 + n

\* RAW: the prefix, a quote, and lazily up to the next quote.
RawEnd(text, pos) ==
    LET h == RawPrefixEnd(text, pos)
        c == FirstLit(text, h + 1, <<QT>>)
    IN  IF h = 0 \/ ~At(text, h, <<QT>>) \/ c = 0 THEN 0
        ELSE c + 1

\* The body of STRING from p on: a backslash with the character behind it
\* (no line break), or a character that is no quote, backslash or line
\* break; then the closing quote.
RECURSIVE StringBodyEnd(_, _)
StringBodyEnd(text, p) ==
    IF p > Len(text) THEN 0
    ELSE IF text[p] = QT THEN p + 1
    ELSE IF text[p] = BS
         THEN IF p + 1 <= Len(text) /\ text[p + 1] # NL
              THEN StringBodyEnd(text, p + 2)
              ELSE 0
    ELSE IF text[p] = NL THEN 0
    ELSE StringBodyEnd(text, p + 1)

\* STRING
StringEnd(text, pos) ==
    IF At(text, pos, <<QT>>) THEN StringBodyEnd(text, pos + 1) ELSE 0

\* UNKNOWN: one character that is no line break.
UnknownEnd(text, pos) ==
    IF pos <= Len(text) /\ text[pos] # NL THEN pos + 1 ELSE 0

\* m.lastgroup and m.end() of the match of MASTER_REGEX at pos.  Every
\* position of a text has one: a line break is WHITESPACE and any other
\* character is at least UNKNOWN.
TokenAt(text, pos) ==
    IF LineCommentEnd(text, pos) # 0
    THEN [kind |-> "LINE_COMMENT", end |-> LineCommentEnd(text, pos)]
    ELSE IF BlockCommentEnd(text, pos) # 0
    THEN [kind |-> "BLOCK_COMMENT", end |-> BlockCommentEnd(text, pos)]
    ELSE IF WhitespaceEnd(text, pos) # 0
    THEN [kind |-> "WHITESPACE", end |-> WhitespaceEnd(text, pos)]
    ELSE IF RawHashedEnd(text, pos) # 0
    THEN [kind |-> "RAW_HASHED", end |-> RawHashedEnd(text, pos)]
    ELSE IF RawEnd(text, pos) # 0
    THEN [kind |-> "RAW", end |-> RawEnd(text, pos)]
    ELSE IF StringEnd(text, pos) # 0
    THEN [kind |-> "STRING", end |-> StringEnd(text, pos)]
    ELSE [kind |-> "UNKNOWN", end |-> UnknownEnd(text, pos)]

\* What the codec unicode_escape makes of a backslash and the character c,
\* for the characters of the model's texts: an escape it does not know is
\* kept as it stands.
EscapeOf(c) ==
    CASE c = "n" -> <<NL>>
      [] c = "r" -> <<"\r">>
      [] c = "t" -> <<"\t">>
      [] c = "b" -> <<Backspace>>
      [] c = QT -> <<QT>>
      [] c = BS -> <<BS>>
      [] OTHER -> <<BS, c>>

RECURSIVE Decode(_)
Decode(s) ==
    IF s = <<>> THEN <<>>
    ELSE IF Head(s) = BS /\ Len(s) >= 2
         THEN EscapeOf(s[2]) \o Decode(SubSeq(s, 3, Len(s)))
         ELSE <<Head(s)>> \o Decode(Tail(s))

\* _unescape_normal: the quotes are cut off and the escapes decoded.  (The
\* texts of the model hold no \u{...} escape, no character outside ASCII and
\* no escape the codec rejects.)
UnescapeNormal(val) == Decode(SubSeq(val, 2, Len(val) - 1))

\* _strip_raw: what stands between the first and the last quote.
StripRaw(val) ==
    LET fq == FirstLit(val, 1, <<QT>>)
        lq == IF fq = 0 THEN 0
              ELSE CHOOSE q \in fq..Len(val) :
                       val[q] = QT /\ \A r \in (q + 1)..Len(val) : val[r] # QT
    IN  IF fq = 0 \/ lq <= fq THEN <<>>
        ELSE SubSeq(val, fq + 1, lq - 1)

\* What one turn of the loop of lex appends to tokens: a one-item list or
\* nothing.
TokenValue(kind, val) ==
    IF kind = "STRING" THEN <<UnescapeNormal(val)>>
    ELSE IF kind \in {"RAW", "RAW_HASHED"} THEN <<StripRaw(val)>>
    ELSE <<>>

\* lex(text), the scan standing at pos.
RECURSIVE LexFrom(_, _)
LexFrom(text, pos) ==
    IF pos > Len(text) THEN <<>>
    ELSE LET t == TokenAt(text, pos)
         IN  TokenValue(t.kind, SubSeq(text, pos, t.end - 1))
                 \o LexFrom(text, t.end)

lex(text) == LexFrom(text, 1)

----------------------------------------------------------------------------
(* parse-test/test.py.  A test record is a function from the names of the  *)
(* fields it has to their values, as the dict json.load gives; the dict of *)
(* read_tests is the list of its records in insertion order, no two with   *)
(* the same input.                                                         *)

\* Largest number of records of a tests file.
MaxTests == 2

Has(rec, k) == k \in DOMAIN rec
\* rec.pop(k, None)
Pop(rec, k) == [x \in DOMAIN rec \ {k} |-> rec[x]]
\* rec[k] = v
Put(rec, k, v) == [x \in DOMAIN rec \cup {k} |-> IF x = k THEN v ELSE rec[x]]

\* TestCase(input=token)
TestCase(token) == [input |-> token]

\* The code points of the characters of the model's inputs.
Ord(c) ==
    CASE c = Backspace -> 8 [] c = "\t" -> 9 [] c = NL -> 10 [] c = "\r" -> 13
      [] c = " " -> 32 [] c = QT -> 34 [] c = "#" -> 35 [] c = "*" -> 42
      [] c = "/" -> 47 [] c = "D" -> 68 [] c = "E" -> 69 [] c = "S" -> 83
      [] c = "T" -> 84 [] c = BS -> 92 [] c = "b" -> 98 [] c = "n" -> 110
      [] c = "r" -> 114

\* a < b as python compares str
RECURSIVE StrLess(_, _)
StrLess(a, b) ==
    IF b = <<>> THEN FALSE
    ELSE IF a = <<>> THEN TRUE
    ELSE IF Head(a) # Head(b) THEN Ord(Head(a)) < Ord(Head(b))
    ELSE StrLess(Tail(a), Tail(b))

Keys(d) == {d[i].input : i \in DOMAIN d}

\* The place of key in the dict, 0 when it is no key.
IndexOf(d, key) ==
    IF key \in Keys(d) THEN CHOOSE i \in DOMAIN d : d[i].input = key ELSE 0

\* d[key] = rec: a new key goes to the end, an old key keeps its place.
DictPut(d, key, rec) ==
    IF IndexOf(d, key) = 0 THEN Append(d, rec)
    ELSE [d EXCEPT ![IndexOf(d, key)] = rec]

\* read_tests: the records of the file, each under its input.
RECURSIVE ReadFrom(_, _)
ReadFrom(data, d) ==
    IF data = <<>> THEN d
    ELSE ReadFrom(Tail(data), DictPut(d, Head(data).input, Head(data)))

read_tests(data) == ReadFrom(data, <<>>)

\* tests_lists.sort(key=lambda t: t["input"]); the inputs of a dict differ.
RECURSIVE SortByInput(_)
SortByInput(S) ==
    IF S = {} THEN <<>>
    ELSE LET m == CHOOSE x \in S : \A y \in S \ {x} : StrLess(x.input, y.input)
         IN  <<m>> \o SortByInput(S \ {m})

\* What write_tests leaves in the file.
write_tests(d) == SortByInput({d[i] : i \in DOMAIN d})

\* keyword in token
Contains(token, keyword) ==
    \E q \in 1..(Len(token) + 1) : At(token, q, keyword)

\* The keywords import_tests is called with.
Keywords == {<<"S", "E">>, <<"D">>}

\* The for loop over keywords of import_tests.
Matches(token) == \E k \in Keywords : Contains(token, k)

----------------------------------------------------------------------------
(* The inputs of a harness run.                                            *)

SqlSE == <<"S", "E">>
SqlD == <<"D">>
SqlT == <<"T">>

\* Records a tests file may hold; two of them have the same input.
TestPool ==
    { [input |-> SqlSE],
      [input |-> SqlSE, output |-> "old", issues |-> <<"warn">>,
       should_fail |-> TRUE, failure |-> TRUE],
      [input |-> SqlD, output |-> "ast", should_fail |-> FALSE],
      [input |-> SqlT, should_fail |-> TRUE] }

\* The tests files: a JSON list of records in any order, also one that has
\* the same input twice (the file is kept by hand as well as by the harness);
\* and no file at all.
NoFile == [exists |-> FALSE, data |-> <<>>]
DiskFiles ==
    {[exists |-> TRUE, data |-> data] :
        data \in UNION {[1..n -> TestPool] : n \in 0..MaxTests}}
    \cup {NoFile}

Quoted(body) == <<QT>> \o body \o <<QT>>

\* The rust files import_tests reads, and no file.
NoSource == [exists |-> FALSE, text |-> <<>>]
SourceCorpus ==
    { NoSource,
      [exists |-> TRUE, text |-> <<>>],
      \* "SE" r"D" // "T"
      \* "T"
      [exists |-> TRUE,
       text |-> Quoted(SqlSE) \o <<" ", "r">> \o Quoted(SqlD)
                    \o <<" ", "/", "/", " ">> \o Quoted(SqlT) \o <<NL>>
                    \o Quoted(SqlT)],
      \* /* "SE" */ r#"T"D"# " SE "
      [exists |-> TRUE,
       text |-> <<"/", "*", " ">> \o Quoted(SqlSE) \o <<" ", "*", "/", " ">>
                    \o <<"r", "#">> \o Quoted(<<"T", QT, "D">>) \o <<"#", " ">>
                    \o Quoted(<<" ", "S", "E", " ">>)],
      \* "T\"D" "T
      \* "SE\n" br"D"
      [exists |-> TRUE,
       text |-> Quoted(<<"T", BS, QT, "D">>) \o <<" ", QT, "T", NL>>
                    \o Quoted(<<"S", "E", BS, "n">>) \o <<" ", "b", "r">>
                    \o Quoted(SqlD)] }

NoArgs == [update_output |-> FALSE, interactive |-> FALSE, filter |-> <<>>]
\* --filter absent or "S"
ArgSets ==
    [update_output : BOOLEAN, interactive : BOOLEAN, filter : {<<>>, <<"S">>}]

NoResult == [crashed |-> FALSE, out |-> [success |-> FALSE]]

\* No run of check.py: the run is one of the harness.
CheckOff ==
    /\ md = <<>>
    /\ rs = <<>>
    /\ pc = "off"
    /\ md_task = <<>>
    /\ rust_examples_dict = EmptyDict
    /\ rust_examples = <<>>
    /\ find_examples = <<>>
    /\ found = <<>>
    /\ rust_task = <<>>
    /\ seen = {}
    /\ idx = 1
    /\ bad = 0
    /\ output = <<>>
    /\ exit_status = 0
    /\ run = 1
    /\ first = <<>>

\* The harness is started with one of its commands.
InitTest ==
    /\ CheckOff
    /\ command \in {"import", "test"}
    /\ disk \in DiskFiles
    /\ disk0 = disk
    /\ IF command = "import"
       THEN args = NoArgs /\ source \in SourceCorpus
       ELSE args \in ArgSets /\ source = NoSource
    /\ written = FALSE
    /\ tests = <<>>
    /\ hpc = "start"
    /\ lx_pos = 1
    /\ tokens = <<>>
    /\ scanned = <<>>
    /\ cur = 1
    /\ result = NoResult
    /\ failure_count = 0
    /\ stdout = <<>>

----------------------------------------------------------------------------
(* import_tests                                                            *)

\* read_tests raises: there is no tests file.  Neither command catches it.
ReadFail ==
    /\ hpc = "start"
    /\ ~disk.exists
    /\ hpc' = "crashed"
    /\ UNCHANGED cvars
    /\ UNCHANGED <<command, args, disk, disk0, written, source, tests, lx_pos,
                   tokens, scanned, cur, result, failure_count, stdout>>

\* The tests are read and open(source_file) raises FileNotFoundError: the
\* warning, and the tests are written back.
ImportOpenFail ==
    /\ command = "import"
    /\ hpc = "start"
    /\ disk.exists
    /\ ~source.exists
    /\ tests' = read_tests(disk.data)
    /\ stdout' = Append(stdout, [kind |-> "warning", failures |-> 0, of |-> 0])
    /\ disk' = [exists |-> TRUE, data |-> write_tests(tests')]
    /\ written' = TRUE
    /\ hpc' = "done"
    /\ UNCHANGED cvars
    /\ UNCHANGED <<command, args, disk0, source, lx_pos, tokens, scanned, cur,
                   result, failure_count>>

\* The tests are read, the source file is opened and read, and lex starts.
ImportOpen ==
    /\ command = "import"
    /\ hpc = "start"
    /\ disk.exists
    /\ source.exists
    /\ tests' = read_tests(disk.data)
    /\ hpc' = "lex"
    /\ UNCHANGED cvars
    /\ UNCHANGED <<command, args, disk, disk0, written, source, lx_pos, tokens,
                   scanned, cur, result, failure_count, stdout>>

\* One turn of the loop of lex over MASTER_REGEX.finditer(text).
LexTurn ==
    /\ hpc = "lex"
    /\ lx_pos <= Len(source.text)
    /\ LET t == TokenAt(source.text, lx_pos)
           val == SubSeq(source.text, lx_pos, t.end - 1)
       IN  /\ tokens' = tokens \o TokenValue(t.kind, val)
           /\ scanned' = Append(scanned, [kind |-> t.kind, val |-> val])
           /\ lx_pos' = t.end
    /\ UNCHANGED cvars
    /\ UNCHANGED <<command, args, disk, disk0, written, source, tests, hpc, cur,
                   result, failure_count, stdout>>

\* lex returns tokens, and the loop of import_tests starts.
LexReturn ==
    /\ hpc = "lex"
    /\ lx_pos > Len(source.text)
    /\ hpc' = "import"
    /\ cur' = 1
    /\ UNCHANGED cvars
    /\ UNCHANGED <<command, args, disk, disk0, written, source, tests, lx_pos,
                   tokens, scanned, result, failure_count, stdout>>

\* Mutant: a token is stored whether or not it is a key already.
AddTokenAlways(d, token) ==
    IF ~Matches(token) THEN d
    ELSE DictPut(d, token, TestCase(token))

\* What one turn of the loop of import_tests makes of the dict.
AddToken(d, token) ==
    IF ~Matches(token) \/ token \in Keys(d) THEN d
    ELSE DictPut(d, token, TestCase(token))

\* One turn of the loop of import_tests.
ImportToken ==
    /\ hpc = "import"
    /\ cur <= Len(tokens)
    /\ tests' = AddToken(tests, strip(tokens[cur]))
    /\ cur' = cur + 1
    /\ UNCHANGED cvars
    /\ UNCHANGED <<command, args, disk, disk0, written, source, hpc, lx_pos,
                   tokens, scanned, result, failure_count, stdout>>

\* After the loop: write_tests and the message.
ImportWrite ==
    /\ hpc = "import"
    /\ cur > Len(tokens)
    /\ disk' = [exists |-> TRUE, data |-> write_tests(tests)]
    /\ written' = TRUE
    /\ stdout' = Append(stdout, [kind |-> "imported", failures |-> 0, of |-> 0])
    /\ hpc' = "done"
    /\ UNCHANGED cvars
    /\ UNCHANGED <<command, args, disk0, source, tests, lx_pos, tokens, scanned,
                   cur, result, failure_count>>

----------------------------------------------------------------------------
(* test_dialect.  run_parser runs the parser binary, which is not part of  *)
(* the harness: its result is an input of each turn, a crash (a return     *)
(* code that is not 0) or the JSON object it printed, which has "success"  *)
(* and may lack "value" or "issues".                                       *)

ParserOuts ==
    { [success |-> TRUE, value |-> "ast", issues |-> <<>>],
      [success |-> TRUE, value |-> "ast"],
      [success |-> FALSE, value |-> "ast", issues |-> <<"warn">>],
      [success |-> FALSE, issues |-> <<"warn">>] }

ParserResults ==
    {[crashed |-> TRUE, out |-> [success |-> FALSE]]}
        \cup {[crashed |-> FALSE, out |-> o] : o \in ParserOuts}

\* rec.get(k, False)
GetBool(rec, k) == Has(rec, k) /\ rec[k]

\* test.get("issues", [])
IssuesOf(test) == IF Has(test, "issues") THEN test.issues ELSE <<>>

\* test.get("output") != out.get("value")
OutputDiffers(test, out) ==
    \/ Has(test, "output") # Has(out, "value")
    \/ Has(test, "output") /\ test.output # out.value

\* output and issues are set from the object, or removed when it lacks them.
SetOutputs(test, out) ==
    LET a == IF Has(out, "value") THEN Put(test, "output", out.value)
             ELSE Pop(test, "output")
    IN  IF Has(out, "issues") THEN Put(a, "issues", out.issues)
        ELSE Pop(a, "issues")

\* failure is removed on success and set on failure.
SetFailure(test, out) ==
    IF out.success THEN Pop(test, "failure") ELSE Put(test, "failure", TRUE)

\* Mutant: the crash branch is that of the interactive mode, which removes
\* should_fail too.
UpdateTestAsInteractive(test, res) ==
    IF res.crashed
    THEN Pop(Pop(Pop(Put(test, "failure", TRUE), "should_fail"), "output"),
             "issues")
    ELSE SetFailure(SetOutputs(test, res.out), res.out)

\* What the update-output branch makes of the test.
UpdateTest(test, res) ==
    IF res.crashed
    THEN Pop(Pop(Put(test, "failure", TRUE), "output"), "issues")
    ELSE SetFailure(SetOutputs(test, res.out), res.out)

\* The interactive branch on a crash.
InteractiveCrash(test) ==
    Pop(Pop(Pop(Put(test, "failure", TRUE), "should_fail"), "output"), "issues")

\* The test of "Test state changed", for an object that has "issues".
Changed(test, out) ==
    \/ OutputDiffers(test, out)
    \/ out.success = GetBool(test, "failure")
    \/ out.issues # IssuesOf(test)

\* The interactive branch raises KeyError: out["issues"] is read in the test
\* or in the prints, out["value"] in the prints.
InteractiveRaises(test, out) ==
    \/ ~Has(out, "issues")
    \/ Changed(test, out) /\ ~Has(out, "value")

\* The KeyError is raised in the test itself, before anything is printed:
\* output and success give no change, and out["issues"] is read and missing.
\* Otherwise it is raised in the prints, behind the "Test state changed"
\* line.
RaisesInTest(test, out) ==
    /\ ~OutputDiffers(test, out)
    /\ out.success # GetBool(test, "failure")
    /\ ~Has(out, "issues")

\* The interactive branch after the answer s (success = True) or f.
Accept(test, out, success) ==
    LET a == SetOutputs(test, out)
        b == IF success /\ ~out.success THEN Put(a, "should_fail", TRUE)
             ELSE Pop(a, "should_fail")
    IN  SetFailure(b, out)

\* The test did not behave as expected.
Unexpected(test, out) == out.success = GetBool(test, "should_fail")

\* The prints of an unexpected result raise KeyError.
ReportRaises(out) == ~Has(out, "value") \/ ~Has(out, "issues")

Line(kind) == [kind |-> kind, failures |-> 0, of |-> 0]
\* print("{dialect_name} - Total failures: {failure_count} out of {len(tests)}")
TotalLine(n, m) == [kind |-> "total", failures |-> n, of |-> m]

\* args.filter and args.filter not in inp
FilteredOut(inp) == args.filter # <<>> /\ ~Contains(inp, args.filter)

TestStart ==
    /\ command = "test"
    /\ hpc = "start"
    /\ disk.exists
    /\ tests' = read_tests(disk.data)
    /\ failure_count' = 0
    /\ cur' = 1
    /\ hpc' = "loop"
    /\ UNCHANGED cvars
    /\ UNCHANGED <<command, args, disk, disk0, written, source, lx_pos, tokens,
                   scanned, result, stdout>>

\* A turn of the loop for a test the filter leaves out.
TestSkip ==
    /\ hpc = "loop"
    /\ cur <= Len(tests)
    /\ FilteredOut(tests[cur].input)
    /\ cur' = cur + 1
    /\ UNCHANGED cvars
    /\ UNCHANGED <<command, args, disk, disk0, written, source, tests, hpc,
                   lx_pos, tokens, scanned, result, failure_count, stdout>>

\* A turn of the loop in update-output mode, the parser giving res.
TestUpdate(res) ==
    /\ hpc = "loop"
    /\ cur <= Len(tests)
    /\ ~FilteredOut(tests[cur].input)
    /\ args.update_output
    /\ result' = res
    /\ tests' = [tests EXCEPT ![cur] = UpdateTest(@, res)]
    /\ stdout' = Append(stdout, Line(IF res.crashed THEN "crash" ELSE "updated"))
    /\ cur' = cur + 1
    /\ UNCHANGED cvars
    /\ UNCHANGED <<command, args, disk, disk0, written, source, hpc, lx_pos,
                   tokens, scanned, failure_count>>

\* A turn of the loop in interactive mode, the parser giving res and the
\* user answering choice when asked.
TestInteractive(res, choice) ==
    /\ hpc = "loop"
    /\ cur <= Len(tests)
    /\ ~FilteredOut(tests[cur].input)
    /\ ~args.update_output
    /\ args.interactive
    /\ result' = res
    /\ IF res.crashed
       THEN /\ tests' = [tests EXCEPT ![cur] = InteractiveCrash(@)]
            /\ stdout' = Append(stdout, Line("crash"))
            /\ cur' = cur + 1
            /\ UNCHANGED hpc
       ELSE IF InteractiveRaises(tests[cur], res.out)
       THEN /\ hpc' = "crashed"
            /\ stdout' = IF RaisesInTest(tests[cur], res.out) THEN stdout
                          ELSE Append(stdout, Line("changed"))
            /\ UNCHANGED <<tests, cur>>
       ELSE IF ~Changed(tests[cur], res.out)
       THEN /\ stdout' = Append(stdout, Line("no change"))
            /\ cur' = cur + 1
            /\ UNCHANGED <<tests, hpc>>
       ELSE /\ stdout' = Append(stdout, Line("changed"))
            /\ UNCHANGED hpc
            /\ CASE choice \in {"s", "f"} ->
                        /\ tests' = [tests EXCEPT
                                       ![cur] = Accept(@, res.out, choice = "s")]
                        /\ cur' = cur + 1
                 [] choice = "i" ->
                        /\ cur' = cur + 1
                        /\ UNCHANGED tests
                 [] choice = "q" ->
                        \* break: the loop is left
                        /\ cur' = Len(tests) + 1
                        /\ UNCHANGED tests
    /\ UNCHANGED cvars
    /\ UNCHANGED <<command, args, disk, disk0, written, source, lx_pos, tokens,
                   scanned, failure_count>>

\* A turn of the loop in non-interactive mode, the parser giving res.
TestRun(res) ==
    /\ hpc = "loop"
    /\ cur <= Len(tests)
    /\ ~FilteredOut(tests[cur].input)
    /\ ~args.update_output
    /\ ~args.interactive
    /\ result' = res
    /\ IF res.crashed
       THEN /\ stdout' = Append(stdout, Line("crash"))
            /\ failure_count' = failure_count + 1
            /\ cur' = cur + 1
            /\ UNCHANGED hpc
       ELSE IF Unexpected(tests[cur], res.out)
       THEN IF ReportRaises(res.out)
            THEN /\ hpc' = "crashed"
                 /\ stdout' = Append(stdout, Line("failed"))
                 /\ UNCHANGED <<failure_count, cur>>
            ELSE /\ stdout' = Append(stdout, Line("failed"))
                 /\ failure_count' = failure_count + 1
                 /\ cur' = cur + 1
                 /\ UNCHANGED hpc
       ELSE /\ stdout' = Append(stdout, Line("passed"))
            /\ cur' = cur + 1
            /\ UNCHANGED <<hpc, failure_count>>
    /\ UNCHANGED cvars
    /\ UNCHANGED <<command, args, disk, disk0, written, source, tests, lx_pos,
                   tokens, scanned>>

\* After the loop: the tests are saved, or the total is printed.
TestFinish ==
    /\ hpc = "loop"
    /\ cur > Len(tests)
    /\ IF args.interactive \/ args.update_output
       THEN /\ disk' = [exists |-> TRUE, data |-> write_tests(tests)]
            /\ written' = TRUE
            /\ UNCHANGED stdout
       ELSE /\ stdout' = Append(stdout, TotalLine(failure_count, Len(tests)))
            /\ UNCHANGED <<disk, written>>
    /\ hpc' = "done"
    /\ UNCHANGED cvars
    /\ UNCHANGED <<command, args, disk0, source, tests, lx_pos, tokens, scanned,
                   cur, result, failure_count>>

Choices == {"s", "f", "i", "q"}

NextTest ==
    \/ ReadFail
    \/ ImportOpenFail
    \/ ImportOpen
    \/ LexTurn
    \/ LexReturn
    \/ ImportToken
    \/ ImportWrite
    \/ TestStart
    \/ TestSkip
    \/ \E res \in ParserResults : TestUpdate(res)
    \/ \E res \in ParserResults, choice \in Choices : TestInteractive(res, choice)
    \/ \E res \in ParserResults : TestRun(res)
    \/ TestFinish

SpecTest == InitTest /\ [][NextTest]_vars

----------------------------------------------------------------------------
(* Vocabulary of the properties.                                           *)

AcceptedMarkers == {OuterDoc, InnerDoc}
AnyMarker == {PlainComment, OuterDoc, InnerDoc}

\* The example's lines, each behind the marker and one space.
Copy(marker, text) ==
    LET lines == split(text)
    IN  join([i \in 1..Len(lines) |-> Cmt(marker, 1, lines[i])])

\* src has consecutive whole lines that are, in order, the lines of text,
\* each behind one of the markers and one of the numbers of spaces.
CommentRun(src, text, markers, spaces) ==
    LET sl == split(src)
        el == split(text)
    IN  \E k \in 1..(Len(sl) - Len(el) + 1) :
            \A j \in 1..Len(el) :
                \E m \in markers, n \in spaces : sl[k + j - 1] = Cmt(m, n, el[j])

AfterScan == pc \in {"report", "done"}

Examples == DOMAIN rust_examples
Missing == {i \in DOMAIN found : ~found[i]}

\* A printed body with the two leading spaces of each line removed; <<"?">>
\* when some line lacks them.
Unindent(body) ==
    LET lines == split(body)
    IN  IF \A i \in 1..Len(lines) : At(lines[i], 1, <<" ", " ">>)
        THEN join([i \in 1..Len(lines) |-> SubSeq(lines[i], 3, Len(lines[i]))])
        ELSE <<"?">>

\* The places of the output that are the block of example i: its origin path
\* and its text.
BlocksOf(i) ==
    {k \in DOMAIN output :
        /\ output[k].kind = "example"
        /\ output[k].file = rust_examples[i][1]
        /\ Unindent(output[k].body) = rust_examples[i][3]}

ExampleBlocks == {k \in DOMAIN output : output[k].kind = "example"}
SummaryLines == {k \in DOMAIN output : output[k].kind = "summary"}

\* One whole pass of visit_rust over text sets the flag of example i.
Detects(i, text) == i \in GroupsFrom(find_examples, text, 1)

----------------------------------------------------------------------------
\* C1: after the source scan, an example whose lines stand in a readable
\* source file as consecutive comment lines, each behind an accepted marker
\* and one space, has its flag set and has no block in the report.
C1_PresenceDetection ==
    AfterScan =>
        \A i \in Examples :
            (\E p \in RustPaths :
                 /\ rs[p].ok
                 /\ CommentRun(rs[p].text, rust_examples[i][3],
                               AcceptedMarkers, {1}))
            => /\ found[i]
               /\ pc = "done" => BlocksOf(i) = {}

\* C2: after the source scan, an example that no readable source file holds
\* as consecutive whole comment lines (marker, at most one space, exactly the
\* example's line) has its flag false and is reported with its own text and
\* origin path.
C2_AbsenceDetection ==
    AfterScan =>
        \A i \in Examples :
            ~(\E p \in RustPaths :
                  /\ rs[p].ok
                  /\ CommentRun(rs[p].text, rust_examples[i][3],
                                AnyMarker, {0, 1}))
            => /\ ~found[i]
               /\ pc = "done" => BlocksOf(i) # {}

\* C3: a text already in the map keeps its (path, offset) in every step: a
\* later encounter of the text changes nothing.
C3_FirstLocationKept ==
    [][\A t \in DOMAIN rust_examples_dict :
           /\ t \in DOMAIN rust_examples_dict'
           /\ rust_examples_dict'[t] = rust_examples_dict[t]]_vars

\* C4: once a scan task failed to read its file the run goes no further: it
\* neither compiles the pattern, nor reports, nor ends with status 0.
C4_ReadFailureIsFatal ==
    LET mdFailed == \E p \in MdPaths : md_task[p].st = "failed"
        rustFailed == \E p \in RustPaths : rust_task[p].st = "failed"
    IN  /\ mdFailed => pc = "md_scan"
        /\ rustFailed => pc = "rust_scan"
        /\ (mdFailed \/ rustFailed) => ~(pc = "done" /\ exit_status = 0)

\* C5: the process ends with status 1 exactly when some flag is false, and
\* else with status 0; with status 1 the summary is the last thing printed,
\* after every block, and its count is the number of false flags.
C5_ExitContract ==
    pc = "done" =>
        /\ exit_status \in {0, 1}
        /\ exit_status = 1 <=> Missing # {}
        /\ exit_status = 1 =>
               /\ SummaryLines = {Len(output)}
               /\ output[Len(output)].count = Cardinality(Missing)
               /\ ExampleBlocks = 1..(Len(output) - 1)
        /\ exit_status = 0 => SummaryLines = {}

\* Three examples of which two are absent: status 1 and a summary of 2.
C5_Witness ==
    /\ pc = "done"
    /\ Len(rust_examples) = 3
    /\ Cardinality(Missing) = 2
    /\ exit_status = 1
    /\ output[Len(output)] = SummaryLine(2)

\* C6: the second run on the unchanged tree prints what the first printed
\* and ends with the same status.
C6_SameResultTwice ==
    (run = 2 /\ pc = "done") => first = <<output, exit_status>>

\* C7: every flag starts false, a true flag stays true, and a flag is true
\* exactly when some task saw a match of its group; when the scan has ended
\* that is: exactly when a pass over some readable file matches its group.
C7_State ==
    /\ \A g \in DOMAIN found :
           found[g] <=> \E p \in RustPaths : <<p, g>> \in seen
    /\ AfterScan =>
           \A g \in DOMAIN found :
               found[g] <=> \E p \in RustPaths :
                                rs[p].ok /\ Detects(g, rs[p].text)

C7_Step ==
    /\ \A g \in DOMAIN found : found[g] => (g \in DOMAIN found' /\ found'[g])
    /\ (pc = "md_scan" /\ pc' = "rust_scan") =>
           \A g \in DOMAIN found' : ~found'[g]

C7_FlagsMergedWithoutLoss == []C7_State /\ [][C7_Step]_vars

\* Both tasks matched the same example, and another example stayed unmatched.
C7_Witness ==
    /\ pc = "report"
    /\ \E g \in DOMAIN found :
           /\ found[g]
           /\ \A p \in RustPaths : <<p, g>> \in seen
    /\ Missing # {}

\* C8: the report has exactly one block for each example whose flag is false
\* and none for an example whose flag is true, and the process ends only
\* after the loop has passed the whole list.
C8_AggregateReport ==
    /\ AfterScan =>
           \A i \in Examples :
               i < idx => Cardinality(BlocksOf(i)) = IF found[i] THEN 0 ELSE 1
    /\ pc = "done" =>
           /\ idx = Len(rust_examples) + 1
           /\ Cardinality(ExampleBlocks) = Cardinality(Missing)

\* Two examples reported missing in one run, a third one found.
C8_Witness ==
    /\ pc = "done"
    /\ Cardinality(ExampleBlocks) = 2
    /\ \E i \in Examples : found[i] /\ i < Len(rust_examples)

\* C9: with no example from the documentation scan nothing is printed and
\* the process ends with status 0.
C9_EmptyInput ==
    (pc # "md_scan" /\ rust_examples = <<>>) =>
        /\ output = <<>>
        /\ pc = "done" => exit_status = 0

\* No example, a readable markdown file, and a source file of comment lines
\* in which the pattern of no alternative does match.
C9_Witness ==
    /\ pc = "done"
    /\ rust_examples = <<>>
    /\ exit_status = 0
    /\ \E p \in MdPaths : md[p].ok
    /\ \E p \in RustPaths :
           /\ rs[p].ok
           /\ At(rs[p].text, 1, OuterDoc)
           /\ Search(find_examples, rs[p].text, 1) # NoMatch

RECURSIVE TextsFrom(_, _)
TextsFrom(text, pos) ==
    LET q == MdSearch(text, pos)
    IN  IF q = 0 THEN {}
        ELSE {strip(MdGroup1(text, q))} \cup TextsFrom(text, MdEnd(text, q))

\* The distinct example texts of the documentation files.
DocTexts(paths) == UNION {TextsFrom(md[p].text, 1) : p \in paths}

\* C11: when the documentation scan has ended, the working set holds each
\* distinct stripped example text of the documentation files once, and
\* nothing else; the sorted list has one item per text.
C11_DedupComplete ==
    pc # "md_scan" =>
        /\ DOMAIN rust_examples_dict = DocTexts(MdPaths)
        /\ Len(rust_examples) = Cardinality(DocTexts(MdPaths))
        /\ \A i, j \in Examples :
               rust_examples[i][3] = rust_examples[j][3] => i = j

\* C13: the two scans never interleave.  A documentation task moves only
\* during the documentation scan and a source task only during the source
\* scan; the pattern and the flags are made in one step, which every
\* documentation task has ended before; no source task has left the queue
\* before that step; and the report loop and the exit read the flags only
\* when every source task has ended.
C13_State ==
    /\ pc = "md_scan" =>
           /\ \A p \in RustPaths : rust_task[p].st = "queued"
           /\ find_examples = <<>> /\ found = <<>>
    /\ pc # "md_scan" => Finished(md_task)
    /\ pc \in {"report", "done"} => Finished(rust_task)

C13_Step ==
    /\ md_task' # md_task => (pc = "md_scan" /\ pc' = "md_scan")
    /\ rust_task' # rust_task => (pc = "rust_scan" /\ pc' = "rust_scan")
    /\ (find_examples' # find_examples \/ Len(found') # Len(found)) =>
           /\ pc = "md_scan" /\ pc' = "rust_scan"
           /\ \A p \in MdPaths : md_task[p].st \in {"done", "failed"}
    /\ (idx' # idx \/ output' # output \/ exit_status' # exit_status) =>
           /\ pc = "report"
           /\ \A p \in RustPaths : rust_task[p].st \in {"done", "failed"}

C13_PhaseOrdering == []C13_State /\ [][C13_Step]_vars

\* The report is under way after both scans took several steps each: two
\* documentation tasks stored examples and two source tasks set flags.
C13_Witness ==
    /\ pc = "report"
    /\ idx > 1
    /\ \A p \in MdPaths : md_task[p].st = "done" /\ md_task[p].pos > 1
    /\ \A p \in RustPaths : rust_task[p].st = "done" /\ rust_task[p].pos > 1

\* The text of src from position q on is the lines of text, each behind an
\* accepted marker and at most one space, with a line break between them.
RECURSIVE CommentLinesAt(_, _, _)
CommentLinesAt(src, q, lines) ==
    \E m \in AcceptedMarkers, n \in {0, 1} :
        LET c == Cmt(m, n, Head(lines))
        IN  /\ At(src, q, c)
            /\ \/ Len(lines) = 1
               \/ /\ At(src, q + Len(c), <<NL>>)
                  /\ CommentLinesAt(src, q + Len(c) + 1, Tail(lines))

\* C14: from the compilation on, the pattern has as many groups as the list
\* has examples and so has the flag array, and group i is built from example
\* i.  A step in which a task saw a match of group g sets the flag g and
\* changes no other flag, and the file of the task holds the lines of
\* example g, the one the report loop pairs with flag g, as comment lines.
C14_State ==
    pc # "md_scan" =>
        /\ Len(find_examples) = Len(rust_examples)
        /\ Len(found) = Len(rust_examples)
        /\ \A i \in Examples : join(find_examples[i]) = rust_examples[i][3]

C14_Step ==
    \A p \in RustPaths, g \in DOMAIN found :
        (<<p, g>> \in seen' /\ <<p, g>> \notin seen) =>
            /\ found'[g]
            /\ \A h \in DOMAIN found \ {g} : found'[h] = found[h]
            /\ \E q \in 1..Len(rs[p].text) :
                   CommentLinesAt(rs[p].text, q, split(rust_examples[g][3]))

C14_GroupIndexMapping == []C14_State /\ [][C14_Step]_vars

\* Three examples, and a task saw a match of the third group while the flags
\* of the first two stayed false.
C14_Witness ==
    /\ Len(rust_examples) = 3
    /\ Len(found) = 3
    /\ found[3] /\ ~found[1] /\ ~found[2]
    /\ \E p \in RustPaths : <<p, 3>> \in seen

\* C15: the pattern compiled from a list of no example matches nowhere in
\* any source text.
C15_EmptyListNeverMatches ==
    (pc # "md_scan" /\ rust_examples = <<>>) =>
        \A p \in RustPaths :
            rs[p].ok => Search(find_examples, rs[p].text, 1) = NoMatch

\* The string literals lex went through, as they are written in the text.
StringLiterals ==
    LET lits == SelectSeq(scanned, LAMBDA m : m.kind = "STRING")
    IN  [i \in DOMAIN lits |-> lits[i].val]

\* C12: when lex has returned, its tokens are the matches of kind STRING, in
\* order and as written in the text, quotes included, and nothing else.
C12_OnlyStringsWithQuotes ==
    hpc = "import" => tokens = StringLiterals

\* A turn of the loop of test_dialect that ran the parser on test cur.
Processed ==
    /\ hpc = "loop"
    /\ cur <= Len(tests)
    /\ ~FilteredOut(tests[cur].input)
    /\ cur' = cur + 1
    /\ hpc' = "loop"

\* The fields k of two records agree: both lack it, or both have one value.
SameField(a, b, k) == (Has(a, k) <=> Has(b, k)) /\ (Has(a, k) => a[k] = b[k])

\* C16: in update-output mode a turn that ran the parser leaves should_fail
\* (and input) of its test as it was, present or absent, and leaves every
\* other test alone; afterwards the test has failure exactly when the parser
\* crashed or reported no success.  So the file written at the end gives
\* each test read from the file (for an input the file has twice, its last
\* record) the should_fail it had at the start.
C16_Step ==
    (args.update_output /\ Processed) =>
        /\ Len(tests') = Len(tests)
        /\ \A i \in DOMAIN tests : i # cur => tests'[i] = tests[i]
        /\ \A k \in (DOMAIN tests[cur] \cup DOMAIN tests'[cur])
                        \ {"output", "issues", "failure"} :
               SameField(tests[cur], tests'[cur], k)
        /\ SameField(tests[cur], tests'[cur], "should_fail")
        /\ Has(tests'[cur], "failure")
               <=> (result'.crashed \/ ~result'.out.success)

C16_State ==
    (command = "test" /\ args.update_output /\ hpc = "done") =>
        LET old == read_tests(disk0.data)
        IN  /\ Len(disk.data) = Len(old)
            /\ \A i \in DOMAIN old :
                   \E j \in DOMAIN disk.data :
                       /\ disk.data[j].input = old[i].input
                       /\ SameField(disk.data[j], old[i], "should_fail")

C16_ShouldFailUntouched == []C16_State /\ [][C16_Step]_vars

\* In update-output mode the parser crashed on a test that has should_fail,
\* and succeeded on the next, which has should_fail (false) and lost failure.
C16_Witness ==
    /\ args.update_output
    /\ hpc = "loop"
    /\ cur = 3
    /\ Has(tests[1], "should_fail") /\ Has(tests[1], "failure")
    /\ ~Has(tests[1], "output")
    /\ Has(tests[2], "should_fail") /\ tests[2].should_fail
    /\ ~result.crashed /\ result.out.success
    /\ ~Has(tests[2], "failure")

\* The record at place i of the old tests file is the last one of its input.
LastOfInput(i) ==
    \A j \in DOMAIN disk0.data :
        j > i => disk0.data[j].input # disk0.data[i].input

\* The record is new: it has the input field alone, its input is the
\* stripped text of a token of lex, contains a keyword and is no input of
\* the old file.
Added(rec) ==
    /\ DOMAIN rec = {"input"}
    /\ \E k \in DOMAIN tokens : strip(tokens[k]) = rec.input
    /\ \E kw \in Keywords : Contains(rec.input, kw)
    /\ \A i \in DOMAIN disk0.data : disk0.data[i].input # rec.input

\* C17 as stated: import_tests only adds tests.  At the end every record of
\* the old file is in the new file unchanged, a record the old file did not
\* have is a new one, and with no source file the new file has the records
\* of the old file, none added, changed or removed.
C17_ImportOnlyAdds ==
    (command = "import" /\ hpc = "done") =>
        /\ written
        /\ \A i \in DOMAIN disk0.data :
               \E j \in DOMAIN disk.data : disk.data[j] = disk0.data[i]
        /\ \A j \in DOMAIN disk.data :
               \/ \E i \in DOMAIN disk0.data : disk0.data[i] = disk.data[j]
               \/ Added(disk.data[j])
        /\ ~source.exists => Len(disk.data) = Len(disk0.data)

\* C17 amended: import_tests only adds tests to the tests it read.  No step
\* changes or drops a record of the dict; at the end the new file has, for
\* every input of the old file, the last record of that input unchanged and
\* no other record of that input, and every other record of the new file is
\* a new one; with no source file the new file has those last records and
\* nothing else.
C17_Step ==
    command = "import" =>
        /\ Len(tests') >= Len(tests)
        /\ \A i \in DOMAIN tests : tests'[i] = tests[i]

C17_State ==
    (command = "import" /\ hpc = "done") =>
        /\ written
        /\ \A i \in DOMAIN disk0.data :
               LastOfInput(i) =>
                   \E j \in DOMAIN disk.data : disk.data[j] = disk0.data[i]
        /\ \A j \in DOMAIN disk.data :
               \/ \E i \in DOMAIN disk0.data :
                      LastOfInput(i) /\ disk0.data[i] = disk.data[j]
               \/ Added(disk.data[j])
        /\ \A j, k \in DOMAIN disk.data :
               disk.data[j].input = disk.data[k].input => j = k
        /\ ~source.exists =>
               Len(disk.data) =
                   Cardinality({i \in DOMAIN disk0.data : LastOfInput(i)})

C17_ImportKeepsLast == []C17_State /\ [][C17_Step]_vars

\* An import from a file that has one input twice: the new file has the
\* later record with all its fields, although a token of the source has its
\* input, not the earlier record, and a test that was added.
C17_Witness ==
    /\ command = "import"
    /\ hpc = "done"
    /\ Len(disk0.data) = 2
    /\ disk0.data[1].input = disk0.data[2].input
    /\ disk0.data[1] # disk0.data[2]
    /\ Len(disk.data) = 2
    /\ \E i \in DOMAIN disk.data, k \in DOMAIN tokens :
           /\ disk.data[i] = disk0.data[2]
           /\ Has(disk.data[i], "should_fail")
           /\ Has(disk.data[i], "output")
           /\ strip(tokens[k]) = disk.data[i].input
    /\ \E i \in DOMAIN disk.data : Added(disk.data[i])

\* An import without a source file wrote two tests back.
C17_WitnessNoSource ==
    /\ command = "import"
    /\ hpc = "done"
    /\ ~source.exists
    /\ written
    /\ Len(disk.data) = 2

\* The lines of the harness output of the given kinds.
LinesOf(kinds) == {k \in DOMAIN stdout : stdout[k].kind \in kinds}

NonInteractive ==
    command = "test" /\ ~args.update_output /\ ~args.interactive

\* The loop of test_dialect is at a test the filter selects: the next step
\* runs the parser on it.
Selected ==
    /\ hpc = "loop"
    /\ cur <= Len(tests)
    /\ ~FilteredOut(tests[cur].input)

\* C18: in non-interactive mode a turn that ran the parser counts one
\* failure when the parser crashed or its success value is the test's
\* should_fail (false when absent), and none when parsing succeeded with
\* should_fail false or failed with should_fail true.  No turn changes a test
\* record or the file; every test reported as crashed or failed is counted,
\* and the one total printed at the end is the count, which is the number of
\* tests the filter selected that were counted, out of the number of all
\* tests.
C18_Step ==
    NonInteractive =>
        /\ Selected =>
               LET t == tests[cur]
                   sf == IF "should_fail" \in DOMAIN t THEN t.should_fail
                         ELSE FALSE
                   ok == result'.out.success
                   counted == result'.crashed \/ ok = sf
                   passes == /\ ~result'.crashed
                             /\ (ok /\ ~sf) \/ (~ok /\ sf)
               IN  /\ failure_count' =
                          failure_count + (IF counted THEN 1 ELSE 0)
                   /\ Len(stdout') = Len(stdout) + 1
                   /\ stdout'[Len(stdout')].kind = "passed" <=> passes
        /\ ~Selected => failure_count' = failure_count
        /\ hpc # "start" => tests' = tests
        /\ disk' = disk /\ written' = written

C18_State ==
    NonInteractive =>
        /\ disk = disk0 /\ ~written
        /\ hpc # "start" =>
               /\ tests = read_tests(disk0.data)
               /\ failure_count = Cardinality(LinesOf({"crash", "failed"}))
        /\ hpc = "done" =>
               /\ LinesOf({"total"}) = {Len(stdout)}
               /\ stdout[Len(stdout)].failures = failure_count
               /\ stdout[Len(stdout)].of = Len(tests)
               /\ Cardinality(LinesOf({"crash", "failed", "passed"})) =
                      Cardinality({i \in DOMAIN tests :
                                      ~FilteredOut(tests[i].input)})

C18_FailureCount == []C18_State /\ [][C18_Step]_vars

====
